---------------------------- MODULE Spec2Model ----------------------------
(***************************************************************************)
(* A model of testers/webserv_tester.py: the configuration extractor       *)
(* (parse_config), the command executor (run_command), the scenario        *)
(* catalog (run_*_tests), the multi-host loop (run_multi_loop_tests) and   *)
(* the run loop (main).                                                    *)
(*                                                                         *)
(* A text is a sequence of one-character strings, so that the regular      *)
(* expressions of parse_config are matched character by character.         *)
(***************************************************************************)
EXTENDS Integers, Sequences, FiniteSets, TLC

(***************************************************************************)
(* Bounds of the model.                                                    *)
(***************************************************************************)
\* the largest number of server blocks of a generated configuration
MaxBlocks == 4
\* the largest number of lines of a freely generated configuration
MaxLines == 4
\* the largest number of server blocks of the runs checked for termination
MaxLiveBlocks == 2

(***************************************************************************)
(* Program constants.                                                      *)
(***************************************************************************)
DefaultTimeout == 30
ValgrindTimeout == 60
MinServers == 1
MaxServers == 3

(***************************************************************************)
(* Characters and the character classes of Python's re module.             *)
(***************************************************************************)
\* \s
IsSpace(c) == c \in {" ", "\t", "\n"}

\* \d
IsDigit(c) == c \in {"0", "1", "2", "3", "4", "5", "6", "7", "8", "9"}

DigitVal(c) ==
  CASE c = "0" -> 0 [] c = "1" -> 1 [] c = "2" -> 2 [] c = "3" -> 3
    [] c = "4" -> 4 [] c = "5" -> 5 [] c = "6" -> 6 [] c = "7" -> 7
    [] c = "8" -> 8 [] c = "9" -> 9

\* what int(port) raises on a string that is not a decimal numeral
ValueError == -1

RECURSIVE IntOfAcc(_, _)
IntOfAcc(ds, acc) ==
  IF ds = << >> THEN acc
  ELSE IntOfAcc(Tail(ds), acc * 10 + DigitVal(Head(ds)))

\* int(port): the value of a non-empty string of decimal digits (leading zeros
\* allowed), ValueError otherwise
IntOf(ds) ==
  IF ds # << >> /\ \A i \in 1..Len(ds) : IsDigit(ds[i])
  THEN IntOfAcc(ds, 0)
  ELSE ValueError

\* the literal lit stands in s at index i
LitAt(s, i, lit) ==
  /\ i >= 1
  /\ i + Len(lit) - 1 <= Len(s)
  /\ SubSeq(s, i, i + Len(lit) - 1) = lit

\* the first index >= i of s whose character is not whitespace (Len(s)+1 if none)
RECURSIVE SkipSpace(_, _)
SkipSpace(s, i) ==
  IF i <= Len(s) /\ IsSpace(s[i]) THEN SkipSpace(s, i + 1) ELSE i

\* the first index >= i of s whose character is not a digit
RECURSIVE SkipDigits(_, _)
SkipDigits(s, i) ==
  IF i <= Len(s) /\ IsDigit(s[i]) THEN SkipDigits(s, i + 1) ELSE i

\* the first index >= i of s whose character is c (Len(s)+1 if none)
RECURSIVE IndexOf(_, _, _)
IndexOf(s, i, c) ==
  IF i <= Len(s) /\ s[i] # c THEN IndexOf(s, i + 1, c) ELSE i

KwServer == <<"s", "e", "r", "v", "e", "r">>
KwListen == <<"l", "i", "s", "t", "e", "n">>
KwServerName == <<"s", "e", "r", "v", "e", "r", "_", "n", "a", "m", "e">>

(***************************************************************************)
(* re.split(r'server\s*{', content): a match at i is the word server, any  *)
(* whitespace, an opening brace; 0 when there is none at i, else the index *)
(* after the match.                                                        *)
(***************************************************************************)
ServerOpenEnd(s, i) ==
  IF LitAt(s, i, KwServer)
  THEN LET j == SkipSpace(s, i + Len(KwServer))
       IN  IF j <= Len(s) /\ s[j] = "{" THEN j + 1 ELSE 0
  ELSE 0

\* the least element of a non-empty set of integers
MinOf(S) == CHOOSE x \in S : \A y \in S : x <= y

\* the segments of s between the matches, scanning from i for the leftmost
\* match; start is where the current segment began
RECURSIVE SplitFrom(_, _, _)
SplitFrom(s, start, i) ==
  LET found == {j \in i..Len(s) : ServerOpenEnd(s, j) # 0}
  IN  IF found = {} THEN << SubSeq(s, start, Len(s)) >>
      ELSE LET j == MinOf(found)
               e == ServerOpenEnd(s, j)
           IN  << SubSeq(s, start, j - 1) >> \o SplitFrom(s, e, e)

ReSplitServer(s) == SplitFrom(s, 1, 1)

(***************************************************************************)
(* re.findall(r'listen\s+(\d+);', block): the captured digit strings of    *)
(* the non-overlapping matches, left to right.                             *)
(***************************************************************************)
\* ListenMatch with the capture ([^;]+) in place of (\d+)
ListenMatchAnyWord(s, i) ==
  IF LitAt(s, i, KwListen)
  THEN LET j == i + Len(KwListen)
           k == SkipSpace(s, j)
           d == IndexOf(s, k, ";")
       IN  IF k > j /\ d > k /\ d <= Len(s)
           THEN << SubSeq(s, k, d - 1), d + 1 >>
           ELSE << >>
  ELSE << >>

\* a match at i: <<digits, index after the match>>, or << >>
ListenMatch(s, i) ==
  IF LitAt(s, i, KwListen)
  THEN LET j == i + Len(KwListen)
           k == SkipSpace(s, j)
           d == SkipDigits(s, k)
       IN  IF k > j /\ d > k /\ d <= Len(s) /\ s[d] = ";"
           THEN << SubSeq(s, k, d - 1), d + 1 >>
           ELSE << >>
  ELSE << >>

\* the leftmost match at or after i, then the matches after its end
RECURSIVE FindListenFrom(_, _)
FindListenFrom(s, i) ==
  LET found == {j \in i..Len(s) : ListenMatch(s, j) # << >>}
  IN  IF found = {} THEN << >>
      ELSE LET m == ListenMatch(s, MinOf(found))
           IN  << m[1] >> \o FindListenFrom(s, m[2])

FindListen(block) == FindListenFrom(block, 1)

(***************************************************************************)
(* re.findall(r'server_name\s+([^;]+);', block).  \s+ is greedy and gives  *)
(* back one character when [^;]+ would otherwise be empty; [^;]+ runs to   *)
(* the next semicolon.                                                     *)
(***************************************************************************)
ServerNameMatch(s, i) ==
  IF LitAt(s, i, KwServerName)
  THEN LET j == i + Len(KwServerName)
           k == SkipSpace(s, j)
           g == IF k <= Len(s) /\ s[k] # ";" THEN k
                ELSE IF k - j >= 2 THEN k - 1 ELSE 0
           e == IF g = 0 THEN 0 ELSE IndexOf(s, g, ";")
       IN  IF k > j /\ g # 0 /\ e <= Len(s)
           THEN << SubSeq(s, g, e - 1), e + 1 >>
           ELSE << >>
  ELSE << >>

RECURSIVE FindServerNameFrom(_, _)
FindServerNameFrom(s, i) ==
  LET found == {j \in i..Len(s) : ServerNameMatch(s, j) # << >>}
  IN  IF found = {} THEN << >>
      ELSE LET m == ServerNameMatch(s, MinOf(found))
           IN  << m[1] >> \o FindServerNameFrom(s, m[2])

FindServerName(block) == FindServerNameFrom(block, 1)

\* str.split(): the maximal runs of non-whitespace characters
RECURSIVE WordEnd(_, _)
WordEnd(s, i) ==
  IF i <= Len(s) /\ ~IsSpace(s[i]) THEN WordEnd(s, i + 1) ELSE i

RECURSIVE StrSplitFrom(_, _)
StrSplitFrom(s, i) ==
  LET b == SkipSpace(s, i)
  IN  IF b > Len(s) THEN << >>
      ELSE LET e == WordEnd(s, b)
           IN  << SubSeq(s, b, e - 1) >> \o StrSplitFrom(s, e)

StrSplit(s) == StrSplitFrom(s, 1)

(***************************************************************************)
(* parse_config.  The file is absent, unreadable, or holds lines; f.read() *)
(* is their concatenation.                                                 *)
(***************************************************************************)
RECURSIVE Concat(_)
Concat(texts) ==
  IF texts = << >> THEN << >> ELSE Head(texts) \o Concat(Tail(texts))

\* f.read()
FileContent(file) == Concat([i \in 1..Len(file.lines) |-> file.lines[i].text])

\* ParseBlock with the last server_name directive in place of the first
ParseBlockLastName(block) ==
  LET ports == FindListen(block)
      server_names == FindServerName(block)
  IN  [ports |-> [i \in 1..Len(ports) |-> IntOf(ports[i])],
       server_names |-> IF server_names # << >>
                        THEN StrSplit(server_names[Len(server_names)])
                        ELSE << >>]

\* the body of the for loop: one descriptor per block
ParseBlock(block) ==
  LET ports == FindListen(block)
      server_names == FindServerName(block)
  IN  [ports |-> [i \in 1..Len(ports) |-> IntOf(ports[i])],
       server_names |-> IF server_names # << >>
                        THEN StrSplit(server_names[1])
                        ELSE << >>]

ParseServers(content) ==
  LET server_blocks == Tail(ReSplitServer(content))
  IN  [i \in 1..Len(server_blocks) |-> ParseBlock(server_blocks[i])]

\* the try block raised: int() failed on some captured port
Raises(servers) ==
  \E i \in 1..Len(servers) :
    \E j \in 1..Len(servers[i].ports) : servers[i].ports[j] = ValueError

\* parse_config(config_path): the descriptors, or sys.exit(1)
ParseConfigResult(file) ==
  IF file.status = "missing"
  THEN [exit |-> TRUE, error |-> "Config file not found", servers |-> << >>]
  ELSE IF file.status = "unreadable"
  THEN [exit |-> TRUE, error |-> "Error parsing config file", servers |-> << >>]
  ELSE LET servers == ParseServers(FileContent(file))
       IN  IF Raises(servers)
           THEN [exit |-> TRUE, error |-> "Error parsing config file",
                 servers |-> << >>]
           ELSE [exit |-> FALSE, error |-> "", servers |-> servers]

(***************************************************************************)
(* run_command(command, check=True, timeout=30).  How the external command *)
(* ends: "zero" and "nonzero" are its exit status, "timeout" is            *)
(* subprocess.TimeoutExpired, "exception" is any other exception of        *)
(* subprocess.run.  raised: the exception leaves run_command.              *)
(***************************************************************************)
\* RunCommand without the last except clause: the exception leaves run_command
RunCommandPropagates(call, outcome) ==
  CASE outcome = "zero" ->
         [raised |-> FALSE, success |-> TRUE, output |-> "stdout"]
    [] outcome = "nonzero" ->
         IF call.check
         THEN [raised |-> FALSE, success |-> FALSE, output |-> "stderr"]
         ELSE [raised |-> FALSE, success |-> TRUE, output |-> "stdout"]
    [] outcome = "timeout" ->
         [raised |-> FALSE, success |-> FALSE, output |-> "Timeout"]
    [] outcome = "exception" ->
         [raised |-> TRUE, success |-> FALSE, output |-> "str(e)"]

\* RunCommand that tests the exit status whatever check is
RunCommandAlwaysChecks(call, outcome) ==
  CASE outcome = "zero" ->
         [raised |-> FALSE, success |-> TRUE, output |-> "stdout"]
    [] outcome = "nonzero" ->
         [raised |-> FALSE, success |-> FALSE, output |-> "stderr"]
    [] outcome = "timeout" ->
         [raised |-> FALSE, success |-> FALSE, output |-> "Timeout"]
    [] outcome = "exception" ->
         [raised |-> FALSE, success |-> FALSE, output |-> "str(e)"]

RunCommand(call, outcome) ==
  CASE outcome = "zero" ->
         [raised |-> FALSE, success |-> TRUE, output |-> "stdout"]
    [] outcome = "nonzero" ->
         IF call.check
         THEN [raised |-> FALSE, success |-> FALSE, output |-> "stderr"]
         ELSE [raised |-> FALSE, success |-> TRUE, output |-> "stdout"]
    [] outcome = "timeout" ->
         [raised |-> FALSE, success |-> FALSE, output |-> "Timeout"]
    [] outcome = "exception" ->
         [raised |-> FALSE, success |-> FALSE, output |-> "str(e)"]

\* {'PASS' if success else 'FAIL'}
Verdict(success) == IF success THEN "PASS" ELSE "FAIL"

(***************************************************************************)
(* The scenario catalog: the (command, test name) lists of run_*_tests.    *)
(***************************************************************************)
\* a scenario run with the defaults of run_command
Test(cmd, name) ==
  [cmd |-> cmd, name |-> name, check |-> TRUE, timeout |-> DefaultTimeout]

\* {port} in an f-string
Str(n) == ToString(n)

\* prepare_test_files: the two commands, whose results are not logged
FixtureCalls ==
  << Test("head -c 100000 /dev/urandom > big.txt", ""),
     Test("yes \"this is a line of text\" | head -n 5000 > test.txt", "") >>

BasicTests(port) ==
  << Test("curl http://localhost:" \o Str(port), "Basic GET"),
     Test("curl http://localhost:" \o Str(port + 1), "Alternate Port GET"),
     Test("curl -v -X POST http://localhost:" \o Str(port) \o "/uploads "
          \o "-H \"Content-Type: application/x-www-form-urlencoded\" "
          \o "--data-binary \"text=Hello%20world\"", "POST Body Size"),
     Test("curl http://localhost:" \o Str(port) \o "/index.html", "Index HTML"),
     Test("curl http://localhost:" \o Str(port)
          \o "/cgi-bin/guestbook_display.php", "CGI Route"),
     Test("curl -i http://localhost:" \o Str(port) \o "/nonexistent_page.txt",
          "404 Error"),
     Test("curl http://localhost:" \o Str(port) \o "/uploads/",
          "Directory Index"),
     Test("curl http://localhost:" \o Str(port) \o "/cgi-bin/",
          "Method Restriction"),
     Test("curl -X GET http://localhost:" \o Str(port) \o "/index.html",
          "GET Request"),
     Test("curl -X POST --data \"test_data\" http://localhost:" \o Str(port)
          \o "/uploads", "POST Request"),
     Test("curl -v -X DELETE \"http://127.0.0.1:" \o Str(port)
          \o "/delete?file=test.txt\"", "DELETE Request"),
     Test("curl -X INVALIDMETHOD http://localhost:" \o Str(port) \o "/",
          "Invalid Method"),
     Test("curl -X GET http://localhost:" \o Str(port) \o "/uploads/",
          "Autoindex"),
     Test("curl -i http://127.0.0.1:" \o Str(port) \o "/redirect",
          "Redirection") >>

CgiTests(port) ==
  << Test("curl -X GET http://127.0.0.1:" \o Str(port)
          \o "/cgi-bin/guestbook_display.php", "CGI GET"),
     Test("curl -X POST -d \"username=TestUser\" "
          \o "-d \"message=Hello from curl\" http://127.0.0.1:" \o Str(port)
          \o "/cgi-bin/guestbook.php", "CGI POST"),
     Test("curl -X GET http://127.0.0.1:" \o Str(port)
          \o "/cgi-bin/infinite.php", "CGI Timeout"),
     Test("curl -i http://127.0.0.1:" \o Str(port)
          \o "/cgi-bin/fatal_error.php", "CGI Error") >>

ChunkedTests(port) ==
  << Test("curl -v http://localhost:" \o Str(port) \o "/uploads "
          \o "-H \"Transfer-Encoding: chunked\" "
          \o "--data-binary \"@big.txt\"", "Chunked Binary"),
     Test("curl -v http://localhost:" \o Str(port) \o "/uploads "
          \o "-H \"Transfer-Encoding: chunked\" "
          \o "--data-binary \"@test.txt\"", "Chunked Text"),
     Test("curl -v http://localhost:" \o Str(port) \o "/uploads "
          \o "-H \"Content-Type: text/plain\" "
          \o "-H \"Transfer-Encoding: chunked\" "
          \o "--data-binary \"hello again from plain text\"",
          "Chunked Plain Text"),
     Test("curl -v http://localhost:" \o Str(port) \o "/uploads "
          \o "-H \"Content-Type: application/x-www-form-urlencoded\" "
          \o "-H \"Transfer-Encoding: chunked\" "
          \o "--data-binary \"username=tester&message=chunked%20rocks\"",
          "Chunked Form"),
     Test("curl -v http://localhost:" \o Str(port) \o "/uploads "
          \o "-H \"Transfer-Encoding: chunked\" "
          \o "-F \"file=@test.txt\"", "Chunked Multipart") >>

DeleteTests(port) ==
  << Test("curl -v -X DELETE \"http://127.0.0.1:" \o Str(port)
          \o "/delete?file=test_1.txt\"", "DELETE Request") >>

\* run_command(cmd, check=False)
StressTests(port) ==
  << [cmd |-> "siege -b -c50 -t15s http://localhost:" \o Str(port)
               \o "/index.html",
      name |-> "Stress GET", check |-> FALSE, timeout |-> DefaultTimeout] >>

\* create_read_err_script() only binds a local string: it writes no file
OtherTests(port) ==
  << Test("python3 read_err.py", "Abrupt Disconnect"),
     Test("curl -v -H \"Host: $(printf 'a%.0s' {1..100000}).testiservu1.com\" "
          \o "http://127.0.0.1:" \o Str(port) \o "/index.html", "Big Header"),
     [cmd |-> "valgrind --leak-check=full --track-fds=yes ./webserv",
      name |-> "Valgrind FD Check", check |-> FALSE,
      timeout |-> ValgrindTimeout] >>

\* the order of the calls in the loop body of main
Categories == <<"basic", "cgi", "chunked", "delete", "stress", "misc">>

Tests(category, port) ==
  CASE category = "basic" -> BasicTests(port)
    [] category = "cgi" -> CgiTests(port)
    [] category = "chunked" -> ChunkedTests(port)
    [] category = "delete" -> DeleteTests(port)
    [] category = "stress" -> StressTests(port)
    [] category = "misc" -> OtherTests(port)

(***************************************************************************)
(* run_multi_loop_tests: the command of one (descriptor, name, port);      *)
(* i is the zero-based index of enumerate(servers).                        *)
(***************************************************************************)
\* a text as a string
RECURSIVE Join(_)
Join(text) == IF text = << >> THEN "" ELSE Head(text) \o Join(Tail(text))

\* MultiIp that ignores the index
MultiIpFixed(i) == "127.0.0.1"

MultiIp(i) == "127.0.0." \o Str(i + 1)

MultiCall(i, server_name, port) ==
  Test("curl --resolve " \o Join(server_name) \o ":" \o Str(port) \o ":"
       \o MultiIp(i) \o " http://" \o Join(server_name) \o ":" \o Str(port)
       \o "/",
       "Server " \o Join(server_name) \o ":" \o Str(port))

(***************************************************************************)
(* The loops of main and of run_multi_loop_tests.  A position is the       *)
(* descriptor s, the name n, the port p, the category c and the test t     *)
(* (indices from 1; 0 where the loop has none).                            *)
(***************************************************************************)
NoPos == [s |-> 0, n |-> 0, p |-> 0, c |-> 0, t |-> 0]

RECURSIVE Distinct(_, _)
Distinct(seq, seen) ==
  IF seq = << >> THEN << >>
  ELSE IF Head(seq) \in seen THEN Distinct(Tail(seq), seen)
  ELSE << Head(seq) >> \o Distinct(Tail(seq), seen \cup {Head(seq)})

\* PortsOf over set(server['ports']): a repeated port is visited once
PortsOfDistinct(server) == Distinct(server.ports, {})

\* for port in server['ports']
PortsOf(server) == server.ports

\* CountAccepted without the lower bound
CountAcceptedNoLower(count) == count <= MaxServers

\* if not 1 <= len(servers) <= 3
CountAccepted(count) == MinServers <= count /\ count <= MaxServers

\* MultiWanted with >= in place of >
MultiWantedFromOne(count) == count >= 1

\* if len(servers) > 1
MultiWanted(count) == count > 1

\* the first descriptor at or after s that has a port (0 if none)
RECURSIVE FirstPerPort(_, _)
FirstPerPort(servers, s) ==
  IF s > Len(servers) THEN NoPos
  ELSE IF PortsOf(servers[s]) # << >>
       THEN [s |-> s, n |-> 0, p |-> 1, c |-> 1, t |-> 1]
       ELSE FirstPerPort(servers, s + 1)

\* the position after pos in the loops of main, lines 274-282
NextPerPort(servers, pos) ==
  LET port == PortsOf(servers[pos.s])[pos.p]
  IN  IF pos.t < Len(Tests(Categories[pos.c], port))
      THEN [pos EXCEPT !.t = pos.t + 1]
      ELSE IF pos.c < Len(Categories)
      THEN [pos EXCEPT !.c = pos.c + 1, !.t = 1]
      ELSE IF pos.p < Len(PortsOf(servers[pos.s]))
      THEN [pos EXCEPT !.p = pos.p + 1, !.c = 1, !.t = 1]
      ELSE FirstPerPort(servers, pos.s + 1)

\* the first descriptor at or after s that has a name and a port
RECURSIVE FirstMulti(_, _)
FirstMulti(servers, s) ==
  IF s > Len(servers) THEN NoPos
  ELSE IF servers[s].server_names # << >> /\ servers[s].ports # << >>
       THEN [s |-> s, n |-> 1, p |-> 1, c |-> 0, t |-> 0]
       ELSE FirstMulti(servers, s + 1)

\* the position after pos in the loops of run_multi_loop_tests
NextMulti(servers, pos) ==
  IF pos.p < Len(servers[pos.s].ports)
  THEN [pos EXCEPT !.p = pos.p + 1]
  ELSE IF pos.n < Len(servers[pos.s].server_names)
  THEN [pos EXCEPT !.n = pos.n + 1, !.p = 1]
  ELSE FirstMulti(servers, pos.s + 1)

(***************************************************************************)
(* The lines a configuration file is made of: its text, and what the line  *)
(* is meant as (kind, port, names).                                        *)
(***************************************************************************)
Line(kind, text, port, names) ==
  [kind |-> kind, text |-> text, port |-> port, names |-> names]

\* "server {\n"
OpenBrace ==
  Line("server", <<"s", "e", "r", "v", "e", "r", " ", "{", "\n">>, 0, << >>)

\* "server\n{"
OpenNextLine ==
  Line("server", <<"s", "e", "r", "v", "e", "r", "\n", "{">>, 0, << >>)

\* " listen 80;\n"
Listen80 ==
  Line("listen",
       <<" ", "l", "i", "s", "t", "e", "n", " ", "8", "0", ";", "\n">>,
       80, << >>)

\* "\tlisten  081;"
Listen081 ==
  Line("listen",
       <<"\t", "l", "i", "s", "t", "e", "n", " ", " ", "0", "8", "1", ";">>,
       81, << >>)

\* " listen x;\n": a listen directive whose port is not a number
ListenBad ==
  Line("malformed",
       <<" ", "l", "i", "s", "t", "e", "n", " ", "x", ";", "\n">>, 0, << >>)

\* " server_name a b;\n"
NameAB ==
  Line("server_name",
       <<" ", "s", "e", "r", "v", "e", "r", "_", "n", "a", "m", "e", " ",
         "a", " ", "b", ";", "\n">>,
       0, << <<"a">>, <<"b">> >>)

\* " server_name\tcd ;"
NameCD ==
  Line("server_name",
       <<" ", "s", "e", "r", "v", "e", "r", "_", "n", "a", "m", "e", "\t",
         "c", "d", " ", ";">>,
       0, << <<"c", "d">> >>)

\* "}\n"
CloseBrace == Line("other", <<"}", "\n">>, 0, << >>)

Lines ==
  {OpenBrace, OpenNextLine, Listen80, Listen081, ListenBad, NameAB, NameCD,
   CloseBrace}

\* the sequences over S of length at most n
SeqsUpTo(S, n) == UNION {[1..k -> S] : k \in 0..n}

\* the bodies of the server blocks of the generated configurations
Bodies ==
  { <<Listen80, NameAB, NameCD>>,
    <<Listen081, ListenBad, Listen081>>,
    <<NameCD, Listen80>>,
    <<NameAB>> }

RECURSIVE BlockLines(_)
BlockLines(bodies) ==
  IF bodies = << >> THEN << >>
  ELSE <<OpenBrace>> \o Head(bodies) \o <<CloseBrace>>
       \o BlockLines(Tail(bodies))

File(status, lines) == [status |-> status, lines |-> lines]

\* the configuration files of the runs of main
ConfigFiles ==
  {File("missing", << >>), File("unreadable", << >>)}
    \cup {File("ok", BlockLines(bs)) : bs \in SeqsUpTo(Bodies, MaxBlocks)}

\* the configuration files of the runs checked for termination
LiveConfigFiles ==
  {File("missing", << >>)}
    \cup {File("ok", BlockLines(bs)) :
            bs \in SeqsUpTo({<<Listen80, NameAB, NameCD>>, <<NameAB>>},
                            MaxLiveBlocks)}

\* the configuration files parse_config is checked on
FreeConfigFiles == {File("ok", ls) : ls \in SeqsUpTo(Lines, MaxLines)}

(***************************************************************************)
(* The state of a run of main.                                             *)
(***************************************************************************)
VARIABLES
  configFile,  \* the file at CONFIG_FILE_PATH
  pc,          \* where main stands
  servers,     \* the descriptors parse_config returned
  pos,         \* the position of the loops
  running,     \* the external command of the current run_command, if any
  calls,       \* the calls of run_command so far, in order
  last,        \* the last call that returned: outcome, result, logged verdict
  log,         \* the phase messages logged so far
  exitStatus   \* the exit status of the process (-1 while it runs)

vars == <<configFile, pc, servers, pos, running, calls, last, log, exitStatus>>

NoResult ==
  [name |-> "", check |-> TRUE, outcome |-> "none", success |-> TRUE,
   output |-> "", verdict |-> ""]

InitRun ==
  /\ pc = "main"
  /\ servers = << >>
  /\ pos = NoPos
  /\ running = "none"
  /\ calls = << >>
  /\ last = NoResult
  /\ log = << >>
  /\ exitStatus = -1

Init == configFile \in ConfigFiles /\ InitRun

InitLive == configFile \in LiveConfigFiles /\ InitRun

InitParse == configFile \in FreeConfigFiles /\ InitRun

\* Exit with status 0
ExitZero(message) ==
  /\ pc' = "exited"
  /\ exitStatus' = 0
  /\ log' = Append(log, message)

\* sys.exit(1), or an exception that leaves main
Exit(message) ==
  /\ pc' = "exited"
  /\ exitStatus' = 1
  /\ log' = Append(log, message)

\* servers = parse_config(CONFIG_FILE_PATH)
ParseConfig ==
  /\ pc = "main"
  /\ LET res == ParseConfigResult(configFile)
     IN  IF res.exit
         THEN /\ Exit(res.error)
              /\ UNCHANGED servers
         ELSE /\ servers' = res.servers
              /\ pc' = "parsed"
              /\ UNCHANGED <<log, exitStatus>>
  /\ UNCHANGED <<configFile, pos, running, calls, last>>

\* the check of the descriptor count, then the entry of prepare_test_files
CheckCount ==
  /\ pc = "parsed"
  /\ IF ~CountAccepted(Len(servers))
     THEN /\ Exit("Config file must contain 1-3 server blocks")
          /\ UNCHANGED pos
     ELSE /\ pc' = "fixtures"
          /\ pos' = [NoPos EXCEPT !.t = 1]
          /\ log' = Append(log, "Preparing test files...")
          /\ UNCHANGED exitStatus
  /\ UNCHANGED <<configFile, servers, running, calls, last>>

\* the call of run_command main stands at
CurrentCall ==
  CASE pc = "fixtures" -> FixtureCalls[pos.t]
    [] pc = "perport" ->
         Tests(Categories[pos.c], PortsOf(servers[pos.s])[pos.p])[pos.t]
    [] pc = "multi" ->
         MultiCall(pos.s - 1, servers[pos.s].server_names[pos.n],
                   servers[pos.s].ports[pos.p])

InCall == pc \in {"fixtures", "perport", "multi"}

\* where main stands after the current call returned
Advance ==
  LET np == CASE pc = "fixtures" ->
                   IF pos.t < Len(FixtureCalls)
                   THEN [pos EXCEPT !.t = pos.t + 1]
                   ELSE FirstPerPort(servers, 1)
              [] pc = "perport" -> NextPerPort(servers, pos)
              [] pc = "multi" -> NextMulti(servers, pos)
  IN  /\ pos' = np
      /\ pc' = CASE pc = "fixtures" ->
                      IF pos.t < Len(FixtureCalls) THEN "fixtures"
                      ELSE IF np = NoPos THEN "afterloop" ELSE "perport"
                 [] pc = "perport" ->
                      IF np = NoPos THEN "afterloop" ELSE "perport"
                 [] pc = "multi" -> IF np = NoPos THEN "report" ELSE "multi"

\* run_command returns (or raises) for the current call, and the caller logs
Return(call, outcome) ==
  LET r == RunCommand(call, outcome)
  IN  /\ running' = "none"
      /\ last' = [name |-> call.name, check |-> call.check,
                  outcome |-> outcome, success |-> r.success,
                  output |-> r.output,
                  verdict |-> IF pc = "fixtures" THEN ""
                              ELSE Verdict(r.success)]
      /\ IF r.raised
         THEN /\ Exit("Traceback")
              /\ UNCHANGED pos
         ELSE /\ Advance
              /\ UNCHANGED <<log, exitStatus>>

\* subprocess.run starts the command, which will exit or never does
Launch ==
  /\ InCall
  /\ running = "none"
  /\ running' \in {"exits", "hangs"}
  /\ calls' = Append(calls, CurrentCall)
  /\ UNCHANGED <<configFile, pc, servers, pos, last, log, exitStatus>>

\* subprocess.run raises before the command runs
LaunchFails ==
  /\ InCall
  /\ running = "none"
  /\ calls' = Append(calls, CurrentCall)
  /\ Return(CurrentCall, "exception")
  /\ UNCHANGED <<configFile, servers>>

\* the command exits with status 0 within the timeout
ExitsZero ==
  /\ running = "exits"
  /\ Return(CurrentCall, "zero")
  /\ UNCHANGED <<configFile, servers, calls>>

\* the command exits with a non-zero status within the timeout
ExitsNonZero ==
  /\ running = "exits"
  /\ Return(CurrentCall, "nonzero")
  /\ UNCHANGED <<configFile, servers, calls>>

\* subprocess.run raises after the command ended, for instance on output
\* that does not decode as text
OutputFails ==
  /\ running = "exits"
  /\ Return(CurrentCall, "exception")
  /\ UNCHANGED <<configFile, servers, calls>>

\* the timeout of the call passes first: subprocess.TimeoutExpired
TimesOut ==
  /\ running \in {"exits", "hangs"}
  /\ Return(CurrentCall, "timeout")
  /\ UNCHANGED <<configFile, servers, calls>>

\* if len(servers) > 1: run_multi_loop_tests(servers)
MultiCheck ==
  /\ pc = "afterloop"
  /\ IF MultiWanted(Len(servers))
     THEN /\ log' = Append(log, "Running multi-loop tests...")
          /\ pos' = FirstMulti(servers, 1)
          /\ pc' = IF FirstMulti(servers, 1) = NoPos THEN "report" ELSE "multi"
     ELSE /\ pc' = "report"
          /\ UNCHANGED <<log, pos>>
  /\ UNCHANGED <<configFile, servers, running, calls, last, exitStatus>>

\* logger.info("All tests completed"), and main returns
Report ==
  /\ pc = "report"
  /\ log' = Append(log, "All tests completed")
  /\ pc' = "done"
  /\ exitStatus' = 0
  /\ UNCHANGED <<configFile, servers, pos, running, calls, last>>

Next ==
  \/ ParseConfig
  \/ CheckCount
  \/ Launch
  \/ LaunchFails
  \/ ExitsZero
  \/ ExitsNonZero
  \/ OutputFails
  \/ TimesOut
  \/ MultiCheck
  \/ Report

Spec == Init /\ [][Next]_vars

\* a step of main after parse_config returned
RunStep ==
  \/ CheckCount
  \/ Launch
  \/ LaunchFails
  \/ ExitsZero
  \/ ExitsNonZero
  \/ OutputFails
  \/ TimesOut
  \/ MultiCheck
  \/ Report

\* main is one thread that runs until it ends, and every timeout is finite:
\* a step that can be taken is taken
FairSpec == InitLive /\ [][Next]_vars /\ WF_vars(RunStep)

\* parse_config and the count check alone, on freely composed files
NextParse == ParseConfig \/ CheckCount

SpecParse == InitParse /\ [][NextParse]_vars

(***************************************************************************)
(* What a configuration means, line by line: the reference the parser is   *)
(* compared with.  It reads the kinds of the lines, never their text.      *)
(***************************************************************************)
\* the lines of each server block: a "server" line opens a block, the lines
\* before the first one belong to none
RECURSIVE BlocksOfLines(_, _)
BlocksOfLines(lines, acc) ==
  IF lines = << >> THEN acc
  ELSE LET l == Head(lines)
       IN  IF l.kind = "server"
           THEN BlocksOfLines(Tail(lines), Append(acc, << >>))
           ELSE IF acc = << >>
           THEN BlocksOfLines(Tail(lines), acc)
           ELSE BlocksOfLines(Tail(lines),
                  [acc EXCEPT ![Len(acc)] = Append(acc[Len(acc)], l)])

IsListenLine(l) == l.kind = "listen"

IsNameLine(l) == l.kind = "server_name"

\* the descriptor a block of lines stands for
DescriptorOfLines(block) ==
  LET listens == SelectSeq(block, IsListenLine)
      names == SelectSeq(block, IsNameLine)
  IN  [ports |-> [i \in 1..Len(listens) |-> listens[i].port],
       server_names |-> IF names = << >> THEN << >> ELSE names[1].names]

DescriptorsOfLines(lines) ==
  LET blocks == BlocksOfLines(lines, << >>)
  IN  [i \in 1..Len(blocks) |-> DescriptorOfLines(blocks[i])]

\* the number of server blocks of the configuration file
BlockCount == Len(BlocksOfLines(configFile.lines, << >>))

HasMalformedListen ==
  \E i \in 1..Len(configFile.lines) : configFile.lines[i].kind = "malformed"

IsPrefix(a, b) == Len(a) <= Len(b) /\ SubSeq(b, 1, Len(a)) = a

\* the scenarios of one port, category by category
PortScenarios(port) ==
  BasicTests(port) \o CgiTests(port) \o ChunkedTests(port)
    \o DeleteTests(port) \o StressTests(port) \o OtherTests(port)

RECURSIVE ScenariosOfPorts(_)
ScenariosOfPorts(ports) ==
  IF ports = << >> THEN << >>
  ELSE PortScenarios(Head(ports)) \o ScenariosOfPorts(Tail(ports))

\* the per-port scenarios of a descriptor list: descriptors in order, ports in
\* list order, one pass per occurrence of a port
RECURSIVE ExpectedPerPort(_)
ExpectedPerPort(descs) ==
  IF descs = << >> THEN << >>
  ELSE ScenariosOfPorts(Head(descs).ports) \o ExpectedPerPort(Tail(descs))

RECURSIVE PortCount(_)
PortCount(descs) ==
  IF descs = << >> THEN 0
  ELSE Len(Head(descs).ports) + PortCount(Tail(descs))

\* the number of calls of run_command up to the end of the per-port loops
PerPortEnd == Len(FixtureCalls) + Len(PortScenarios(0)) * PortCount(servers)

\* the calls after the per-port loops
MultiCalls == SubSeq(calls, PerPortEnd + 1, Len(calls))

AfterLoops == pc \in {"afterloop", "multi", "report", "done"}

(***************************************************************************)
(* C1: when parse_config returns 0 or more than 3 descriptors the run ends *)
(* with exit status 1 before prepare_test_files and before any call of     *)
(* run_command; with 1, 2 or 3 descriptors it goes on to the fixtures.     *)
(***************************************************************************)
C1_CountGate ==
  pc \notin {"main", "parsed"} =>
    IF Len(servers) \in 1..3
    THEN /\ pc # "exited"
         /\ exitStatus # 1
         /\ log[1] = "Preparing test files..."
    ELSE /\ pc = "exited"
         /\ exitStatus = 1
         /\ calls = << >>
         /\ \A i \in 1..Len(log) : log[i] # "Preparing test files..."

C1_Witness ==
  /\ pc = "exited"
  /\ configFile.status = "ok"
  /\ Len(servers) = 4
  /\ calls = << >>

(***************************************************************************)
(* C2: whatever the commands do, the per-port scenarios run in one order:  *)
(* descriptors in parse order, ports in list order (once per occurrence),  *)
(* categories basic, cgi, chunked, delete, stress, misc, every scenario of *)
(* each; nothing is skipped or reordered and the run is not aborted.       *)
(***************************************************************************)
C2_ScenarioOrder ==
  LET expected == FixtureCalls \o ExpectedPerPort(servers)
  IN  /\ pc \in {"fixtures", "perport"} => IsPrefix(calls, expected)
      /\ AfterLoops => IsPrefix(expected, calls)
      /\ calls # << >> => pc # "exited"

C2_Witness ==
  /\ pc = "afterloop"
  /\ Len(servers) = 2
  /\ servers[1].ports = <<81, 81>>
  /\ servers[2].ports = <<81, 81>>
  /\ last.outcome = "timeout"
  /\ Len(calls) = 2 + 4 * 28

(***************************************************************************)
(* C3: the exit status is non-zero exactly when a fatal precondition holds *)
(* (file absent, exception while reading it, block count outside 1..3);    *)
(* every other run ends with status 0 after logging completion, whatever   *)
(* its scenarios did.                                                      *)
(***************************************************************************)
FatalPrecondition ==
  \/ configFile.status # "ok"
  \/ BlockCount \notin 1..3

C3_ExitStatus ==
  /\ exitStatus \in {-1, 0, 1}
  /\ exitStatus = 1 <=> pc = "exited"
  /\ exitStatus = 0 <=> pc = "done"
  /\ pc = "exited" => FatalPrecondition
  /\ (FatalPrecondition /\ pc \notin {"main", "parsed"}) => pc = "exited"
  /\ pc = "done" => log[Len(log)] = "All tests completed"

C3_Witness ==
  /\ pc = "done"
  /\ exitStatus = 0
  /\ last.outcome = "exception"
  /\ last.verdict = "FAIL"

(***************************************************************************)
(* C4, as claimed: a stress command (check=False) that ends with a         *)
(* non-zero status is recorded as a failure (success false, logged FAIL),  *)
(* and the run goes on.                                                    *)
(***************************************************************************)
C4_StressNonZeroIsFail ==
  (last.name = "Stress GET" /\ last.outcome = "nonzero") =>
    /\ ~last.success
    /\ last.verdict = "FAIL"
    /\ pc # "exited"

(***************************************************************************)
(* C4, amended: a command run with check=False that ends with a non-zero   *)
(* status is returned as a success and logged PASS, and the run goes on    *)
(* and is not marked failed.                                               *)
(***************************************************************************)
C4_UncheckedNonZeroIsPass ==
  (~last.check /\ last.outcome = "nonzero") =>
    /\ last.success
    /\ last.verdict = "PASS"
    /\ pc # "exited"
    /\ exitStatus # 1

C4_Witness ==
  /\ last.name = "Stress GET"
  /\ last.outcome = "nonzero"
  /\ last.verdict = "PASS"
  /\ pc = "perport"

(***************************************************************************)
(* C5: a run that passed the preconditions reaches the completion step:    *)
(* every call of run_command returns, a command that never ends as a       *)
(* timeout and a launch that raises as a non-success, neither as a success *)
(* nor as an exception that ends the run.                                  *)
(***************************************************************************)
C5_RunCompletes ==
  /\ [](last.outcome \in {"timeout", "exception"} =>
          ~last.success /\ pc # "exited")
  /\ [](running = "hangs" => <>(running = "none" /\ last.outcome = "timeout"))
  /\ (pc = "fixtures") ~> (pc = "done" /\ exitStatus = 0)

C5_Witness ==
  /\ pc = "done"
  /\ last.outcome = "timeout"
  /\ ~last.success
  /\ exitStatus = 0

(***************************************************************************)
(* C6: parse_config returns one descriptor per server block, in order;     *)
(* the ports are the integers of the block's listen directives in order,   *)
(* duplicates kept; the names are those of the block's first server_name   *)
(* directive, none when it has none.                                       *)
(***************************************************************************)
C6_ParseResult ==
  (configFile.status = "ok" /\ pc # "main") =>
    /\ Len(servers) = BlockCount
    /\ servers = DescriptorsOfLines(configFile.lines)

C6_Witness ==
  /\ pc = "parsed"
  /\ configFile.lines = <<OpenNextLine, NameAB, Listen081, NameCD>>
  /\ servers = << [ports |-> <<81>>, server_names |-> << <<"a">>, <<"b">> >>] >>

(***************************************************************************)
(* C7, as claimed: a configuration with a listen directive whose port is   *)
(* not a number ends the run with a non-zero status before any scenario.   *)
(***************************************************************************)
C7_MalformedIsFatal ==
  (HasMalformedListen /\ pc \notin {"main", "parsed"}) =>
    (pc = "exited" /\ exitStatus = 1)

(***************************************************************************)
(* C7, amended: such a directive raises no parse error; parse_config       *)
(* returns the descriptors without that port, and the run ends fatally     *)
(* only when the block count is outside 1..3.                              *)
(***************************************************************************)
C7_MalformedIsSkipped ==
  (HasMalformedListen /\ configFile.status = "ok" /\ pc # "main") =>
    /\ \A i \in 1..Len(log) : log[i] # "Error parsing config file"
    /\ Len(servers) = BlockCount
    /\ \A i \in 1..Len(servers) :
         servers[i].ports = DescriptorsOfLines(configFile.lines)[i].ports
    /\ pc = "exited" => BlockCount \notin 1..3
    /\ pc = "fixtures" => BlockCount \in 1..3

C7_Witness ==
  /\ pc = "fixtures"
  /\ configFile.lines = <<OpenBrace, ListenBad, Listen80>>
  /\ servers = << [ports |-> <<80>>, server_names |-> << >>] >>

(***************************************************************************)
(* C8: run_multi_loop_tests runs one scenario per (descriptor, name, port) *)
(* in loop order, the sum over the descriptors of names times ports, none  *)
(* for a descriptor without names; the descriptor at zero-based index i    *)
(* resolves to 127.0.0.(i+1), so different descriptors get different       *)
(* addresses.                                                              *)
(***************************************************************************)
\* the address of the descriptor at one-based index k
AddressOf(k) ==
  CASE k = 1 -> "127.0.0.1" [] k = 2 -> "127.0.0.2" [] k = 3 -> "127.0.0.3"
    [] OTHER -> "none"

ResolveCommand(name, port, address) ==
  "curl --resolve " \o Join(name) \o ":" \o ToString(port) \o ":" \o address
    \o " http://" \o Join(name) \o ":" \o ToString(port) \o "/"

\* the commands of one descriptor: for each name, for each port
ExpectedMultiOf(desc, k) ==
  LET np == Len(desc.ports)
      count == Len(desc.server_names) * np
  IN  [j \in 1..count |->
         ResolveCommand(desc.server_names[((j - 1) \div np) + 1],
                        desc.ports[((j - 1) % np) + 1], AddressOf(k))]

RECURSIVE ExpectedMultiFrom(_, _)
ExpectedMultiFrom(descs, k) ==
  IF k > Len(descs) THEN << >>
  ELSE ExpectedMultiOf(descs[k], k) \o ExpectedMultiFrom(descs, k + 1)

RECURSIVE TripleCount(_)
TripleCount(descs) ==
  IF descs = << >> THEN 0
  ELSE Len(Head(descs).server_names) * Len(Head(descs).ports)
         + TripleCount(Tail(descs))

CommandsOf(cs) == [i \in 1..Len(cs) |-> cs[i].cmd]

C8_MultiScenarios ==
  LET expected == ExpectedMultiFrom(servers, 1)
  IN  /\ pc = "multi" => IsPrefix(CommandsOf(MultiCalls), expected)
      /\ (pc \in {"report", "done"} /\ Len(servers) > 1) =>
           /\ CommandsOf(MultiCalls) = expected
           /\ Len(MultiCalls) = TripleCount(servers)

C8_Witness ==
  /\ pc = "done"
  /\ Len(servers) = 3
  /\ servers[1].server_names = << <<"a">>, <<"b">> >>
  /\ servers[2].server_names = << >>
  /\ servers[2].ports = <<81, 81>>
  /\ servers[3].server_names = << <<"c", "d">> >>
  /\ Len(MultiCalls) = 3
  /\ MultiCalls[3].cmd = "curl --resolve cd:80:127.0.0.3 http://cd:80/"

(***************************************************************************)
(* C9: the multi-host phase runs exactly when more than one descriptor was *)
(* loaded; its first scenario starts after the last per-port scenario (the *)
(* leak check of the last port) returned and before the completion step;   *)
(* with one descriptor no multi-host scenario ever runs.                   *)
(***************************************************************************)
MultiLogged ==
  \E i \in 1..Len(log) : log[i] = "Running multi-loop tests..."

CompletionLogged ==
  \E i \in 1..Len(log) : log[i] = "All tests completed"

C9_MultiPhase ==
  /\ MultiLogged => (Len(servers) > 1 /\ pc \in {"multi", "report", "done"})
  /\ (pc \in {"report", "done"} /\ Len(servers) > 1) => MultiLogged
  /\ Len(calls) > PerPortEnd =>
       /\ MultiLogged
       /\ PortCount(servers) > 0 =>
            calls[PerPortEnd].name = "Valgrind FD Check"
  /\ pc = "multi" => (Len(calls) >= PerPortEnd /\ ~CompletionLogged)
  /\ (pc = "multi" /\ running # "none" /\ Len(calls) = PerPortEnd + 1
        /\ PortCount(servers) > 0) =>
       last.name = "Valgrind FD Check"
  /\ CompletionLogged => (pc = "done" /\ running = "none")
  /\ Len(servers) = 1 => (pc # "multi" /\ Len(calls) <= PerPortEnd)

C9_Witness ==
  /\ pc = "multi"
  /\ running = "exits"
  /\ Len(calls) = PerPortEnd + 1
  /\ last.name = "Valgrind FD Check"

(***************************************************************************)
(* C10: the command of every scenario of every category embeds the target  *)
(* port: the command run for a port differs from the command the same      *)
(* scenario has for any other port, the three misc scenarios included.     *)
(***************************************************************************)
ConfiguredPorts ==
  UNION {{servers[i].ports[j] : j \in 1..Len(servers[i].ports)} :
           i \in 1..Len(servers)}

C10_CommandEmbedsPort ==
  pc = "perport" =>
    \A q \in ConfiguredPorts \ {servers[pos.s].ports[pos.p]} :
      Tests(Categories[pos.c], q)[pos.t].cmd # CurrentCall.cmd

==========================================================================
